---------------------------- MODULE Spec2Model ----------------------------
(***************************************************************************)
(* Model of taskleap-todo-notion: the scheduler (src/main.py) that creates *)
(* dated occurrences of template tasks under a daily cap, and the cleaner  *)
(* (src/clear.py) that archives templated tasks that carry a date.         *)
(*                                                                         *)
(* JSON values are encoded as follows.  An object is a function from its   *)
(* keys (strings) to values; the empty object is <<>>.  A value that may   *)
(* be null is a sequence of length at most one: <<>> is null, <<v>> is v.  *)
(* A list is a sequence.  An ISO date string is the record                 *)
(* [date |-> d, time |-> t]: t = "" is "YYYY-MM-DD", any other t is        *)
(* "YYYY-MM-DDT<t>".  A calendar date is the integer d counted in days     *)
(* from the first of the current month (the 1st is 1).                     *)
(***************************************************************************)
EXTENDS Integers, Sequences, FiniteSets, TLC

(***************************************************************************)
(* Bounds of the model.                                                    *)
(***************************************************************************)
DaysInMonth == 30        \* length of the current month
WindowDays == 3          \* days from today to the end of the month, at most
MaxTemplates == 2        \* template records in the store
MaxInterval == 2         \* largest "Regularity (days)" value of a template
MaxExisting == 4         \* dated records in the store before the run
MaxFailures == 1         \* create / archive calls the store may refuse
MaxRuns == 2             \* scheduling runs executed one after another

(***************************************************************************)
(* Program constants.                                                      *)
(***************************************************************************)
MAX_TASKS_PER_DAY == 3

None == <<>>
EmptyDict == <<>>

\* dict.get(key, default)
Get(d, key, default) == IF key \in DOMAIN d THEN d[key] ELSE default

\* f"{prop_name}_{kind}"
Key(prop_name, kind) == prop_name \o "_" \o kind

\* due_date.strftime("%Y-%m-%d")
Strftime(d) == [date |-> d, time |-> ""]

\* s.split("T")[0]
SplitT(s) == [date |-> s.date, time |-> ""]

(***************************************************************************)
(* Property codec: extract_task_properties and the payload of create_task. *)
(***************************************************************************)
\* the kind-specific unwrapping of one property; <<>> when the key is omitted
ExtractedValue(prop_type, prop_details) ==
    CASE prop_type = "checkbox"  -> <<Get(prop_details, "checkbox", FALSE)>>
      [] prop_type = "rich_text" -> <<Get(prop_details, "rich_text", <<>>)>>
      [] prop_type = "url"       -> <<Get(prop_details, "url", None)>>
      [] prop_type = "select"    ->
            LET select_data == Get(prop_details, "select", None)
            IN  IF select_data # None THEN <<select_data[1].name>> ELSE <<>>
      [] prop_type = "date"      ->
            LET date_data == Get(prop_details, "date", None)
            IN  IF date_data # None THEN <<date_data[1].start>> ELSE <<>>
      [] OTHER -> <<>>

\* the number as stored, without "or 1"
RegularityMutantRaw(properties) ==
    LET number == Get(Get(properties, "Regularity (days)", EmptyDict), "number", <<1>>)
    IN  IF number # None THEN number[1] ELSE 0

\* properties.get("Regularity (days)", {}).get("number", 1) or 1
RegularityOf(properties) ==
    LET number == Get(Get(properties, "Regularity (days)", EmptyDict), "number", <<1>>)
    IN  IF number # None /\ number[1] # 0 THEN number[1] ELSE 1

extract_task_properties(task, schema) ==
    LET properties == Get(task, "properties", EmptyDict)
        name_data == Get(Get(properties, "Task", EmptyDict), "title", <<>>)
        name == IF name_data # <<>>
                THEN Get(Get(name_data[1], "text", EmptyDict), "content", "")
                ELSE ""
        regularity_days == RegularityOf(properties)
        carried == {p \in DOMAIN properties \ {"Task", "Regularity (days)"} :
                       ExtractedValue(Get(schema, p, "unknown"), properties[p]) # <<>>}
        keys == {Key(p, schema[p]) : p \in carried}
        origin(k) == CHOOSE p \in carried : Key(p, schema[p]) = k
    IN  [k \in {"name", "regularity_days"} \cup keys |->
            IF k = "name" THEN name
            ELSE IF k = "regularity_days" THEN regularity_days
            ELSE ExtractedValue(schema[origin(k)], properties[origin(k)])[1]]

\* Python truthiness of a value that is a string or None
TruthyStr(v) == v # None /\ v[1] # ""

\* the url branch without the "use null instead of empty string" fix
UrlPayloadMutantRaw(url_value) == [url |-> url_value]

UrlPayload(url_value) == [url |-> IF TruthyStr(url_value) THEN url_value ELSE None]

\* whether the schema loop of create_task sets prop_name at all
Emitted(properties, prop_name, prop_type) ==
    CASE prop_type \in {"checkbox", "rich_text", "url"} -> TRUE
      [] prop_type = "select" ->
            TruthyStr(IF Key(prop_name, "select") \in DOMAIN properties
                      THEN <<properties[Key(prop_name, "select")]>> ELSE None)
      [] prop_type = "date" -> Key(prop_name, "date") \in DOMAIN properties
      [] OTHER -> FALSE

EmittedValue(properties, prop_name, prop_type) ==
    CASE prop_type = "checkbox" ->
            [checkbox |-> Get(properties, Key(prop_name, "checkbox"), FALSE)]
      [] prop_type = "rich_text" ->
            [rich_text |-> Get(properties, Key(prop_name, "rich_text"), <<>>)]
      [] prop_type = "url" ->
            UrlPayload(Get(properties, Key(prop_name, "url"), None))
      [] prop_type = "select" ->
            [select |-> <<[name |-> properties[Key(prop_name, "select")]]>>]
      [] prop_type = "date" ->
            [date |-> <<[start |-> properties[Key(prop_name, "date")]]>>]

FixedProperties == {"Task", "Task Type", "Date"}

\* new_properties of create_task
NewProperties(properties, due_date, schema) ==
    LET task_name == Get(properties, "name", "Unnamed task")
        others == {p \in DOMAIN schema \ FixedProperties :
                      Emitted(properties, p, schema[p])}
        done == IF "Done" \in DOMAIN schema /\ schema["Done"] = "checkbox"
                THEN {"Done"} ELSE {}
    IN  [p \in FixedProperties \cup others \cup done |->
            IF p = "Task" THEN [title |-> <<[text |-> [content |-> task_name]]>>]
            ELSE IF p = "Task Type" THEN [select |-> <<[name |-> "Templated task"]>>]
            ELSE IF p = "Date" THEN [date |-> <<[start |-> Strftime(due_date)]>>]
            ELSE IF p \in done THEN [checkbox |-> FALSE]
            ELSE EmittedValue(properties, p, schema[p])]

(***************************************************************************)
(* The external store: a list of pages answering the filter queries the    *)
(* program sends, creating pages and archiving them.                       *)
(***************************************************************************)
\* {"property": "Task Type", "select": {"equals": "Templated task"}}
IsTemplated(page) ==
    LET sel == Get(Get(page.properties, "Task Type", EmptyDict), "select", None)
    IN  sel # None /\ sel[1].name = "Templated task"

\* {"property": "Date", "date": {"is_empty": True}}
DateIsEmpty(page) ==
    Get(Get(page.properties, "Date", EmptyDict), "date", None) = None

DateStart(page) == page.properties["Date"].date[1].start

\* the filter without its "is_empty" condition on Date
TemplatedTasksFilterMutantAnyDate(all_pages) ==
    SelectSeq(all_pages, LAMBDA p : ~p.archived /\ IsTemplated(p))

\* the filter of get_templated_tasks, in the store's order
TemplatedTasksFilter(all_pages) ==
    SelectSeq(all_pages, LAMBDA p : ~p.archived /\ IsTemplated(p) /\ DateIsEmpty(p))

\* the filter of get_existing_tasks: on_or_after start, on_or_before end
ExistingTasksFilter(all_pages, start_date_str, end_date_str) ==
    SelectSeq(all_pages, LAMBDA p :
        /\ ~p.archived
        /\ ~DateIsEmpty(p)
        /\ DateStart(p).date >= start_date_str.date
        /\ DateStart(p).date <= end_date_str.date)

\* the filter of get_templated_tasks_with_dates
TemplatedWithDatesFilter(all_pages) ==
    SelectSeq(all_pages, LAMBDA p : ~p.archived /\ IsTemplated(p) /\ ~DateIsEmpty(p))

\* the page the store makes of a create call's payload
CreatedPage(all_pages, payload) ==
    [id |-> Len(all_pages) + 1, archived |-> FALSE, properties |-> payload]

\* PATCH {"archived": True} on one page id
ArchivePage(all_pages, task_id) ==
    [i \in 1..Len(all_pages) |->
        IF all_pages[i].id = task_id
        THEN [all_pages[i] EXCEPT !.archived = TRUE]
        ELSE all_pages[i]]

\* the property kinds the store reports for the collection
DatabaseSchema ==
    [p \in {"Task", "Task Type", "Date", "Regularity (days)"} |->
        CASE p = "Task" -> "title"
          [] p = "Task Type" -> "select"
          [] p = "Date" -> "date"
          [] OTHER -> "number"]

(***************************************************************************)
(* Occupancy counter: tasks_by_date of get_existing_tasks.                 *)
(***************************************************************************)
RECURSIVE CountByDate(_, _)
CountByDate(results, tasks_by_date) ==
    IF results = <<>> THEN tasks_by_date
    ELSE LET task == Head(results)
             date_prop == Get(Get(Get(task, "properties", EmptyDict),
                                  "Date", EmptyDict), "date", None)
             counted ==
                 IF date_prop # None
                 THEN LET task_date == SplitT(date_prop[1].start)
                      IN  [k \in DOMAIN tasks_by_date \cup {task_date} |->
                              Get(tasks_by_date, k, 0) + (IF k = task_date THEN 1 ELSE 0)]
                 ELSE tasks_by_date
         IN  CountByDate(Tail(results), counted)

(***************************************************************************)
(* Calendar of schedule_tasks.                                             *)
(***************************************************************************)
\* date.replace(day=1), for a date of this month or of the next one
FirstOfMonth(d) == IF d > DaysInMonth THEN DaysInMonth + 1 ELSE 1

\* datetime(year, month, 1).replace(day=28) + timedelta(days=4)
last_day_of_month == 28 + 4

\* (last_day_of_month.replace(day=1) - timedelta(days=1)).date()
end_of_month == FirstOfMonth(last_day_of_month) - 1

(***************************************************************************)
(* State.                                                                  *)
(***************************************************************************)
VARIABLES
    entry,                  \* which script runs: "scheduler" or "cleaner"
    NOTION_API_TOKEN,       \* os.getenv("NOTION_API_TOKEN"): null or a string
    DATABASE_ID,            \* os.getenv("NOTION_DATABASE_ID"): null or a string
    pc,                     \* position of the running script
    pages,                  \* the store's pages
    calls,                  \* the network calls issued so far, in order
    failures,               \* create / archive calls the store refused so far
    today,                  \* date.today()
    schema,                 \* schedule_tasks: schema
    existing_tasks_by_date, \* schedule_tasks: the occupancy table
    new_tasks_by_date,      \* schedule_tasks: the planned-creation table
    template_tasks,         \* schedule_tasks: template_tasks
    index,                  \* position in the for loop of either script
    task_properties,        \* schedule_tasks: task_properties
    current_date,           \* schedule_tasks: current_date
    new_properties,         \* create_task: new_properties, when the codec runs alone
    created_tasks,          \* schedule_tasks: created_tasks
    result,                 \* value returned by main() of the scheduler
    tasks,                  \* cleaner: tasks
    confirmation,           \* cleaner: the line read by input()
    successful_deletions,   \* cleaner: successful_deletions
    deleted_count           \* value returned by main() of the cleaner

vars == <<entry, NOTION_API_TOKEN, DATABASE_ID, pc, pages, calls, failures, today,
          schema, existing_tasks_by_date, new_tasks_by_date, template_tasks, index,
          task_properties, current_date, new_properties, created_tasks, result,
          tasks, confirmation, successful_deletions, deleted_count>>

schedulerVars == <<schema, existing_tasks_by_date, new_tasks_by_date, template_tasks,
                   task_properties, current_date, new_properties, created_tasks, result>>

cleanerVars == <<tasks, confirmation, successful_deletions, deleted_count>>

envVars == <<entry, NOTION_API_TOKEN, DATABASE_ID, today>>

(***************************************************************************)
(* Initial stores.                                                         *)
(***************************************************************************)
\* a template's title is fixed by its interval, so a template is the same
\* record wherever the store lists it
TemplateNames == <<"Every0", "Every1", "Every2", "Every3", "Every4", "Every5">>

TemplatePage(number) ==
    [properties |->
        [p \in {"Task", "Task Type", "Date", "Regularity (days)"} |->
            CASE p = "Task" ->
                    [title |-> <<[text |-> [content |-> TemplateNames[number + 1]]]>>]
              [] p = "Task Type" -> [select |-> <<[name |-> "Templated task"]>>]
              [] p = "Date" -> [date |-> None]
              [] OTHER -> [number |-> <<number>>]]]

\* the i-th dated page: every second one carries a time of day, every third
\* one is not a templated task
DatedPage(i, d) ==
    [properties |->
        [p \in {"Task", "Task Type", "Date", "Regularity (days)"} |->
            CASE p = "Task" -> [title |-> <<[text |-> [content |-> "Dated"]]>>]
              [] p = "Task Type" ->
                    [select |-> <<[name |-> IF i % 3 = 0 THEN "Manual task"
                                                       ELSE "Templated task"]>>]
              [] p = "Date" ->
                    [date |-> <<[start |-> [date |-> d,
                                            time |-> IF i % 2 = 0 THEN "09:00" ELSE ""]]>>]
              [] OTHER -> [number |-> None]]]

\* c0 pages dated yesterday (at most one), c1 today, c2 tomorrow
DatedPages(t, c0, c1, c2) ==
    [i \in 1..(c0 + c1 + c2) |->
        DatedPage(i, IF i <= c0 THEN t - 1 ELSE IF i <= c0 + c1 THEN t ELSE t + 1)]

WithIds(ps) == [i \in 1..Len(ps) |-> [id |-> i, archived |-> FALSE,
                                      properties |-> ps[i].properties]]

\* "Regularity (days)" of a template: zero, daily, or the largest interval
Intervals == {0, 1, MaxInterval}

\* the templates of a store differ in their interval
TemplateLists ==
    {regs \in UNION {[1..n -> Intervals] : n \in 0..MaxTemplates} :
        \A i, j \in 1..Len(regs) : regs[i] = regs[j] => i = j}

InitialStores(t, lists) ==
    {WithIds([i \in 1..Len(regs) |-> TemplatePage(regs[i])] \o DatedPages(t, c0, c1, c2)) :
        <<regs, c0, c1, c2>> \in
            {q \in lists \X (0..1) \X (0..MaxExisting) \X (0..MaxExisting) :
                q[2] + q[3] + q[4] <= MaxExisting}}

\* date.today(): the last day of the month, or WindowDays days before the
\* next month begins
Todays == {DaysInMonth - WindowDays + 1, DaysInMonth}

EnvValues == {None, <<"">>, <<"secret">>}

Init ==
    /\ entry \in {"scheduler", "cleaner"}
    /\ NOTION_API_TOKEN \in EnvValues
    /\ DATABASE_ID \in EnvValues
    /\ pc = "main"
    /\ today \in Todays
    /\ \/ /\ entry = "scheduler"
          /\ TruthyStr(NOTION_API_TOKEN) /\ TruthyStr(DATABASE_ID)
          /\ pages \in InitialStores(today, TemplateLists)
       \/ /\ entry = "scheduler"
          /\ ~(TruthyStr(NOTION_API_TOKEN) /\ TruthyStr(DATABASE_ID))
          /\ pages \in InitialStores(today, {<<1>>})
       \/ /\ entry = "cleaner"
          /\ today = DaysInMonth
          /\ pages \in InitialStores(today, {<<>>, <<1>>})
    /\ calls = <<>>
    /\ failures = 0
    /\ schema = EmptyDict
    /\ existing_tasks_by_date = EmptyDict
    /\ new_tasks_by_date = EmptyDict
    /\ template_tasks = <<>>
    /\ index = 0
    /\ task_properties = EmptyDict
    /\ current_date = 0
    /\ new_properties = EmptyDict
    /\ created_tasks = <<>>
    /\ result = <<>>
    /\ tasks = <<>>
    /\ confirmation = <<>>
    /\ successful_deletions = 0
    /\ deleted_count = 0

(***************************************************************************)
(* The scheduler: main and schedule_tasks of src/main.py.                  *)
(***************************************************************************)
\* only the token is checked
SchedulerCredentialsMissingMutantTokenOnly == ~TruthyStr(NOTION_API_TOKEN)

\* "if not NOTION_API_TOKEN" and "if not DATABASE_ID" of main
SchedulerCredentialsMissing ==
    ~TruthyStr(NOTION_API_TOKEN) \/ ~TruthyStr(DATABASE_ID)

\* main: the credential checks, then schedule_tasks
SchedulerMain ==
    /\ entry = "scheduler" /\ pc = "main"
    /\ IF SchedulerCredentialsMissing
       THEN pc' = "done" /\ result' = <<>>
       ELSE pc' = "schema" /\ UNCHANGED result
    /\ UNCHANGED <<envVars, pages, calls, failures, index, cleanerVars, schema,
                   existing_tasks_by_date, new_tasks_by_date, template_tasks,
                   task_properties, current_date, new_properties, created_tasks>>

\* an empty schema does not stop the run
AfterSchemaMutantContinues(fetched) ==
    /\ schema' = fetched
    /\ pc' = "existing"
    /\ UNCHANGED result

\* what schedule_tasks does with the schema it got
AfterSchema(fetched) ==
    /\ schema' = fetched
    /\ IF fetched = EmptyDict
       THEN pc' = "done" /\ result' = <<>>
       ELSE pc' = "existing" /\ UNCHANGED result

\* get_database_schema answered with status 200
GetSchemaOk ==
    /\ entry = "scheduler" /\ pc = "schema"
    /\ calls' = Append(calls, [op |-> "schema", ok |-> TRUE])
    /\ AfterSchema(DatabaseSchema)
    /\ UNCHANGED <<envVars, pages, failures, index, cleanerVars,
                   existing_tasks_by_date, new_tasks_by_date, template_tasks,
                   task_properties, current_date, new_properties, created_tasks>>

\* get_database_schema: another status, or an exception
GetSchemaFail ==
    /\ entry = "scheduler" /\ pc = "schema"
    /\ calls' = Append(calls, [op |-> "schema", ok |-> FALSE])
    /\ AfterSchema(EmptyDict)
    /\ UNCHANGED <<envVars, pages, failures, index, cleanerVars,
                   existing_tasks_by_date, new_tasks_by_date, template_tasks,
                   task_properties, current_date, new_properties, created_tasks>>

\* an empty occupancy table pretends every day is full
AfterExistingMutantFull(table) ==
    /\ existing_tasks_by_date' =
           IF table = EmptyDict
           THEN [k \in {Strftime(d) : d \in today..end_of_month} |-> MAX_TASKS_PER_DAY]
           ELSE table
    /\ new_tasks_by_date' = EmptyDict
    /\ pc' = "templates"

\* what schedule_tasks does with the occupancy table it got
AfterExisting(table) ==
    /\ existing_tasks_by_date' = table
    /\ new_tasks_by_date' = EmptyDict
    /\ pc' = "templates"

\* get_existing_tasks(today, end_of_month) answered with status 200
GetExistingOk ==
    /\ entry = "scheduler" /\ pc = "existing"
    /\ calls' = Append(calls, [op |-> "query_existing", ok |-> TRUE])
    /\ AfterExisting(CountByDate(
           ExistingTasksFilter(pages, Strftime(today), Strftime(end_of_month)),
           EmptyDict))
    /\ UNCHANGED <<envVars, pages, failures, index, cleanerVars, schema, template_tasks,
                   task_properties, current_date, new_properties, created_tasks, result>>

\* get_existing_tasks: another status, or an exception
GetExistingFail ==
    /\ entry = "scheduler" /\ pc = "existing"
    /\ calls' = Append(calls, [op |-> "query_existing", ok |-> FALSE])
    /\ AfterExisting(EmptyDict)
    /\ UNCHANGED <<envVars, pages, failures, index, cleanerVars, schema, template_tasks,
                   task_properties, current_date, new_properties, created_tasks, result>>

\* what schedule_tasks does with the templates it got
AfterTemplates(results) ==
    /\ template_tasks' = results
    /\ created_tasks' = <<>>
    /\ index' = 0
    /\ IF results = <<>>
       THEN pc' = "done" /\ result' = <<>>
       ELSE pc' = "for" /\ UNCHANGED result

\* get_templated_tasks answered with status 200
GetTemplatesOk ==
    /\ entry = "scheduler" /\ pc = "templates"
    /\ calls' = Append(calls, [op |-> "query_templates", ok |-> TRUE])
    /\ AfterTemplates(TemplatedTasksFilter(pages))
    /\ UNCHANGED <<envVars, pages, failures, cleanerVars, schema,
                   existing_tasks_by_date, new_tasks_by_date,
                   task_properties, current_date, new_properties>>

\* get_templated_tasks: another status, or an exception
GetTemplatesFail ==
    /\ entry = "scheduler" /\ pc = "templates"
    /\ calls' = Append(calls, [op |-> "query_templates", ok |-> FALSE])
    /\ AfterTemplates(<<>>)
    /\ UNCHANGED <<envVars, pages, failures, cleanerVars, schema,
                   existing_tasks_by_date, new_tasks_by_date,
                   task_properties, current_date, new_properties>>

\* regularity = task_properties.get("regularity_days", 1)
Regularity(properties) == Get(properties, "regularity_days", 1)

\* the head of "for index, task in enumerate(template_tasks)": the next
\* template is extracted and either skipped or entered with the cursor on today
ForTemplate ==
    /\ entry = "scheduler" /\ pc = "for"
    /\ index < Len(template_tasks)
    /\ index' = index + 1
    /\ LET extracted == extract_task_properties(template_tasks[index + 1], schema)
       IN  /\ task_properties' = extracted
           /\ IF Regularity(extracted) = 0
              THEN pc' = "for" /\ UNCHANGED current_date
              ELSE pc' = "while" /\ current_date' = today
    /\ UNCHANGED <<envVars, pages, calls, failures, cleanerVars, schema,
                   existing_tasks_by_date, new_tasks_by_date, template_tasks,
                   new_properties, created_tasks, result>>

\* the for loop is exhausted: schedule_tasks and main return created_tasks
ForDone ==
    /\ entry = "scheduler" /\ pc = "for"
    /\ index = Len(template_tasks)
    /\ pc' = "done"
    /\ result' = created_tasks
    /\ UNCHANGED <<envVars, pages, calls, failures, index, cleanerVars, schema,
                   existing_tasks_by_date, new_tasks_by_date, template_tasks,
                   task_properties, current_date, new_properties, created_tasks>>

\* the last day of the month is left out
LoopContinuesMutantStrict == current_date < end_of_month

\* while current_date <= end_of_month
LoopContinues == current_date <= end_of_month

\* the while condition is false: on to the next template
WhileExit ==
    /\ entry = "scheduler" /\ pc = "while"
    /\ ~LoopContinues
    /\ pc' = "for"
    /\ UNCHANGED <<envVars, pages, calls, failures, index, cleanerVars, schedulerVars>>

date_str == Strftime(current_date)

\* existing_tasks_by_date.get(date_str, 0) + new_tasks_by_date[date_str]
total_tasks_for_day ==
    Get(existing_tasks_by_date, date_str, 0) + Get(new_tasks_by_date, date_str, 0)

\* the day is counted as soon as it is looked at
TouchedMutantCounts(table, k) ==
    [x \in DOMAIN table \cup {k} |-> Get(table, x, 0) + (IF x = k THEN 1 ELSE 0)]

\* reading new_tasks_by_date[date_str], a defaultdict(int), inserts the key
Touched(table, k) == [x \in DOMAIN table \cup {k} |-> Get(table, x, 0)]

\* the success is not counted
CountedMutantForgets(table, k) == Touched(table, k)

\* new_tasks_by_date[date_str] += 1
Counted(table, k) == [Touched(table, k) EXCEPT ![k] = @ + 1]

\* the limit is compared with > instead of >=
LimitReachedMutantOffByOne == total_tasks_for_day > MAX_TASKS_PER_DAY

LimitReached == total_tasks_for_day >= MAX_TASKS_PER_DAY

\* the cursor moves to the next calendar day
NextDateMutantNextDay == current_date + 1

NextDate == current_date + Regularity(task_properties)

\* the daily limit is reached: no creation, the cursor moves on
WhileSkip ==
    /\ entry = "scheduler" /\ pc = "while"
    /\ LoopContinues
    /\ LimitReached
    /\ new_tasks_by_date' = Touched(new_tasks_by_date, date_str)
    /\ current_date' = NextDate
    /\ UNCHANGED <<envVars, pc, pages, calls, failures, index, cleanerVars, schema,
                   existing_tasks_by_date, template_tasks, task_properties,
                   new_properties, created_tasks, result>>

\* the log entry of a create call: its outcome, the template it is for
\* (position in template_tasks and name), the due date and the count of the
\* day when it was issued
CreateCall(payload, ok) ==
    [op |-> "create", ok |-> ok, template |-> index,
     name |-> payload["Task"].title[1].text.content,
     date |-> payload["Date"].date[1].start.date,
     total |-> total_tasks_for_day]

\* create_task answered with status 200 or 201: the page exists and is counted
WhileCreateOk ==
    /\ entry = "scheduler" /\ pc = "while"
    /\ LoopContinues
    /\ ~LimitReached
    /\ LET payload == NewProperties(task_properties, current_date, schema)
           data == CreatedPage(pages, payload)
       IN  /\ calls' = Append(calls, CreateCall(payload, TRUE))
           /\ pages' = Append(pages, data)
           /\ created_tasks' = Append(created_tasks, data)
           /\ new_tasks_by_date' = Counted(new_tasks_by_date, date_str)
    /\ current_date' = NextDate
    /\ UNCHANGED <<envVars, pc, failures, index, cleanerVars, schema, new_properties,
                   existing_tasks_by_date, template_tasks, task_properties, result>>

\* create_task: another status, or an exception: None is returned
WhileCreateFail ==
    /\ entry = "scheduler" /\ pc = "while"
    /\ LoopContinues
    /\ ~LimitReached
    /\ failures < MaxFailures
    /\ failures' = failures + 1
    /\ LET payload == NewProperties(task_properties, current_date, schema)
       IN  calls' = Append(calls, CreateCall(payload, FALSE))
    /\ new_tasks_by_date' = Touched(new_tasks_by_date, date_str)
    /\ current_date' = NextDate
    /\ UNCHANGED <<envVars, pc, pages, index, cleanerVars, schema, new_properties,
                   existing_tasks_by_date, template_tasks, task_properties,
                   created_tasks, result>>

SchedulerNext ==
    \/ SchedulerMain
    \/ GetSchemaOk \/ GetSchemaFail
    \/ GetExistingOk \/ GetExistingFail
    \/ GetTemplatesOk \/ GetTemplatesFail
    \/ ForTemplate \/ ForDone
    \/ WhileExit \/ WhileSkip \/ WhileCreateOk \/ WhileCreateFail

(***************************************************************************)
(* The cleaner: main of src/clear.py.  A line of input is a sequence of    *)
(* characters.                                                             *)
(***************************************************************************)
LowerChar(c) ==
    CASE c = "Y" -> "y" [] c = "E" -> "e" [] c = "S" -> "s"
      [] c = "N" -> "n" [] c = "O" -> "o" [] OTHER -> c

\* confirmation.lower()
Lower(line) == [i \in 1..Len(line) |-> LowerChar(line[i])]

\* any prefix of "yes" counts
AffirmativeMutantPrefix(line) ==
    Lower(line) \in {<<"y", "e", "s">>, <<"y", "e">>, <<"y">>, <<>>}

\* not (confirmation.lower() not in ["yes", "y"])
Affirmative(line) == Lower(line) \in {<<"y", "e", "s">>, <<"y">>}

InputLines ==
    {<<"y">>, <<"Y">>, <<"y", "e", "s">>, <<"Y", "E", "S">>, <<"Y", "e", "s">>,
     <<"n", "o">>, <<"N">>, <<>>, <<"y", "e">>, <<"y", "e", "s", " ">>}

\* "if not NOTION_API_TOKEN" and "if not DATABASE_ID" of main
CleanerCredentialsMissing ==
    ~TruthyStr(NOTION_API_TOKEN) \/ ~TruthyStr(DATABASE_ID)

\* main: the credential checks
CleanerMain ==
    /\ entry = "cleaner" /\ pc = "main"
    /\ IF CleanerCredentialsMissing
       THEN pc' = "done" /\ deleted_count' = 0
       ELSE pc' = "query" /\ UNCHANGED deleted_count
    /\ UNCHANGED <<envVars, pages, calls, failures, index, schedulerVars,
                   tasks, confirmation, successful_deletions>>

\* what main does with the tasks it got
AfterDated(results) ==
    /\ tasks' = results
    /\ IF results = <<>>
       THEN pc' = "done" /\ deleted_count' = 0
       ELSE pc' = "confirm" /\ UNCHANGED deleted_count

\* get_templated_tasks_with_dates answered with status 200
GetDatedOk ==
    /\ entry = "cleaner" /\ pc = "query"
    /\ calls' = Append(calls, [op |-> "query_dated", ok |-> TRUE])
    /\ AfterDated(TemplatedWithDatesFilter(pages))
    /\ UNCHANGED <<envVars, pages, failures, index, schedulerVars,
                   confirmation, successful_deletions>>

\* get_templated_tasks_with_dates: another status, or an exception
GetDatedFail ==
    /\ entry = "cleaner" /\ pc = "query"
    /\ calls' = Append(calls, [op |-> "query_dated", ok |-> FALSE])
    /\ AfterDated(<<>>)
    /\ UNCHANGED <<envVars, pages, failures, index, schedulerVars,
                   confirmation, successful_deletions>>

\* input("Are you sure you want to continue? (yes/no): ") and the test on it
Confirm ==
    /\ entry = "cleaner" /\ pc = "confirm"
    /\ \E line \in InputLines :
        /\ confirmation' = line
        /\ IF ~Affirmative(line)
           THEN pc' = "done" /\ deleted_count' = 0
           ELSE pc' = "delete" /\ UNCHANGED deleted_count
    /\ successful_deletions' = 0
    /\ index' = 0
    /\ UNCHANGED <<envVars, pages, calls, failures, schedulerVars, tasks>>

\* delete_task answered with status 200: the page is archived and counted
DeleteOk ==
    /\ entry = "cleaner" /\ pc = "delete"
    /\ index < Len(tasks)
    /\ index' = index + 1
    /\ LET task_id == tasks[index + 1].id
       IN  /\ calls' = Append(calls, [op |-> "archive", ok |-> TRUE, id |-> task_id])
           /\ pages' = ArchivePage(pages, task_id)
    /\ successful_deletions' = successful_deletions + 1
    /\ UNCHANGED <<envVars, pc, failures, schedulerVars, tasks, confirmation,
                   deleted_count>>

\* delete_task: another status, or an exception: False is returned
DeleteFail ==
    /\ entry = "cleaner" /\ pc = "delete"
    /\ index < Len(tasks)
    /\ failures < MaxFailures
    /\ failures' = failures + 1
    /\ index' = index + 1
    /\ calls' = Append(calls, [op |-> "archive", ok |-> FALSE,
                               id |-> tasks[index + 1].id])
    /\ UNCHANGED <<envVars, pc, pages, schedulerVars, tasks, confirmation,
                   successful_deletions, deleted_count>>

\* "for task in tasks" is exhausted: main returns successful_deletions
DeleteDone ==
    /\ entry = "cleaner" /\ pc = "delete"
    /\ index = Len(tasks)
    /\ pc' = "done"
    /\ deleted_count' = successful_deletions
    /\ UNCHANGED <<envVars, pages, calls, failures, index, schedulerVars, tasks,
                   confirmation, successful_deletions>>

CleanerNext ==
    \/ CleanerMain
    \/ GetDatedOk \/ GetDatedFail
    \/ Confirm
    \/ DeleteOk \/ DeleteFail \/ DeleteDone

Next == SchedulerNext \/ CleanerNext

Spec == Init /\ [][Next]_vars

(***************************************************************************)
(* The property codec alone: one template record of a collection with any  *)
(* of the optional properties below is extracted, and the extracted map is *)
(* turned into the payload of a creation for today.                        *)
(***************************************************************************)
OptionalKinds ==
    [p \in {"Done", "Link", "Priority", "Deadline", "Notes", "Tags"} |->
        CASE p = "Done" -> "checkbox"
          [] p = "Link" -> "url"
          [] p = "Priority" -> "select"
          [] p = "Deadline" -> "date"
          [] p = "Notes" -> "rich_text"
          [] OTHER -> "multi_select"]

\* what a template may hold for an optional property of the collection
OptionalDetails(p) ==
    CASE p = "Done" -> {[checkbox |-> TRUE], [checkbox |-> FALSE]}
      [] p = "Link" -> {[url |-> None], [url |-> <<"">>], [url |-> <<"https://x">>]}
      [] p = "Priority" -> {[select |-> None], [select |-> <<[name |-> "High"]>>],
                            [select |-> <<[name |-> "Low"]>>]}
      [] p = "Deadline" -> {[date |-> None],
                            [date |-> <<[start |-> [date |-> 7, time |-> "09:00"]]>>]}
      [] p = "Notes" -> {[rich_text |-> <<>>], [rich_text |-> <<"note">>]}
      [] OTHER -> {[multi_select |-> <<>>]}

\* the property is not in the collection (<<>>), or it is, with some details
Optional(p) == {<<>>} \cup {<<details>> : details \in OptionalDetails(p)}

CodecSchema(chosen, with_regularity) ==
    LET present == {p \in DOMAIN chosen : chosen[p] # <<>>}
        base == {"Task", "Task Type", "Date"}
                    \cup (IF with_regularity THEN {"Regularity (days)"} ELSE {})
    IN  [p \in base \cup present |->
            IF p \in present THEN OptionalKinds[p] ELSE DatabaseSchema[p]]

CodecTask(chosen, title, regularity) ==
    LET present == {p \in DOMAIN chosen : chosen[p] # <<>>}
        base == {"Task", "Task Type", "Date"}
                    \cup (IF regularity # <<>> THEN {"Regularity (days)"} ELSE {})
    IN  [id |-> 1, archived |-> FALSE,
         properties |->
            [p \in base \cup present |->
                CASE p \in present -> chosen[p][1]
                  [] p = "Task" -> [title |-> title]
                  [] p = "Task Type" -> [select |-> <<[name |-> "Templated task"]>>]
                  [] p = "Date" -> [date |-> None]
                  [] OTHER -> [number |-> regularity[1]]]]

InitCodec ==
    /\ entry = "codec"
    /\ NOTION_API_TOKEN = <<"secret">>
    /\ DATABASE_ID = <<"secret">>
    /\ pc = "extract"
    /\ today = DaysInMonth
    /\ current_date = today
    /\ \E done \in Optional("Done"), link \in Optional("Link"),
          priority \in Optional("Priority"), deadline \in Optional("Deadline"),
          notes \in Optional("Notes"), tags \in Optional("Tags"),
          title \in {<<>>, <<[text |-> [content |-> "Water plants"]]>>},
          regularity \in {<<>>, <<None>>} \cup {<<<<k>>>> : k \in 0..2} :
        LET chosen == [p \in DOMAIN OptionalKinds |->
                          CASE p = "Done" -> done [] p = "Link" -> link
                            [] p = "Priority" -> priority [] p = "Deadline" -> deadline
                            [] p = "Notes" -> notes [] OTHER -> tags]
        IN  /\ schema = CodecSchema(chosen, regularity # <<>>)
            /\ template_tasks = <<CodecTask(chosen, title, regularity)>>
    /\ pages = template_tasks
    /\ calls = <<>>
    /\ failures = 0
    /\ existing_tasks_by_date = EmptyDict
    /\ new_tasks_by_date = EmptyDict
    /\ index = 1
    /\ task_properties = EmptyDict
    /\ new_properties = EmptyDict
    /\ created_tasks = <<>>
    /\ result = <<>>
    /\ tasks = <<>>
    /\ confirmation = <<>>
    /\ successful_deletions = 0
    /\ deleted_count = 0

\* task_properties = extract_task_properties(task, schema)
CodecExtract ==
    /\ entry = "codec" /\ pc = "extract"
    /\ task_properties' = extract_task_properties(template_tasks[index], schema)
    /\ pc' = "inject"
    /\ UNCHANGED <<envVars, pages, calls, failures, index, cleanerVars, schema,
                   existing_tasks_by_date, new_tasks_by_date, template_tasks,
                   current_date, new_properties, created_tasks, result>>

\* new_properties of create_task(task_properties, current_date, schema)
CodecInject ==
    /\ entry = "codec" /\ pc = "inject"
    /\ new_properties' = NewProperties(task_properties, current_date, schema)
    /\ pc' = "done"
    /\ UNCHANGED <<envVars, pages, calls, failures, index, cleanerVars, schema,
                   existing_tasks_by_date, new_tasks_by_date, template_tasks,
                   task_properties, current_date, created_tasks, result>>

NextCodec == CodecExtract \/ CodecInject

SpecCodec == InitCodec /\ [][NextCodec]_vars

(***************************************************************************)
(* Views of the state used by the properties below.                        *)
(***************************************************************************)
cap == MAX_TASKS_PER_DAY

\* Occupancy[d] and Planned[d], both 0 for a day the tables do not hold
Occupancy(d) == Get(existing_tasks_by_date, [date |-> d, time |-> ""], 0)
Planned(d) == Get(new_tasks_by_date, [date |-> d, time |-> ""], 0)

TableDays == {k.date : k \in DOMAIN existing_tasks_by_date \cup DOMAIN new_tasks_by_date}

IsCreate(i) == calls[i].op = "create"
Creates == {i \in 1..Len(calls) : IsCreate(i)}

\* successful creations for day d before call i
CreatedBefore(i, d) ==
    Cardinality({j \in 1..(i - 1) : IsCreate(j) /\ calls[j].ok /\ calls[j].date = d})

\* the due dates of the creation calls, in the order issued
IsCreateCall(c) == c.op = "create"
CreateDates ==
    LET cs == SelectSeq(calls, IsCreateCall) IN [i \in 1..Len(cs) |-> cs[i].date]

\* "Regularity (days)" as stored on the template at position i of the list
StoredInterval(i) == template_tasks[i].properties["Regularity (days)"].number

Max(a, b) == IF a >= b THEN a ELSE b

(***************************************************************************)
(* C1.  In every run of schedule_tasks a creation call for day d is issued *)
(* only while Occupancy[d] + Planned[d] < cap, so at every point of the    *)
(* run Occupancy[d] + Planned[d] <= max(Occupancy[d], cap), and a day that *)
(* was at or above the cap before the run receives no creation call.       *)
(***************************************************************************)
C1_CapNeverExceeded ==
    entry = "scheduler" =>
        /\ \A i \in Creates :
              /\ Occupancy(calls[i].date) + CreatedBefore(i, calls[i].date) < cap
              /\ Occupancy(calls[i].date) < cap
        /\ \A d \in TableDays :
              /\ Occupancy(d) + Planned(d) <= Max(Occupancy(d), cap)
              /\ Planned(d) = CreatedBefore(Len(calls) + 1, d)

\* a finished run that filled one day up to the cap with its own creations
\* and left another day, already at the cap, alone after examining it
C1_Witness ==
    /\ entry = "scheduler" /\ pc = "done"
    /\ \E d \in TableDays : Planned(d) >= 1 /\ Occupancy(d) + Planned(d) = cap
    /\ \E d \in TableDays :
          /\ Occupancy(d) >= cap
          /\ [date |-> d, time |-> ""] \in DOMAIN new_tasks_by_date
          /\ Planned(d) = 0

(***************************************************************************)
(* C2.  A finished run with a single template of interval k >= 1, in which *)
(* no candidate day is at the cap and every creation call succeeded,       *)
(* issued its creation calls for exactly today, today+k, today+2k, ... up  *)
(* to the last such date that is not after the end of the month, in this   *)
(* order.                                                                  *)
(***************************************************************************)
C2_SingleTemplateSequence ==
    (/\ entry = "scheduler" /\ pc = "done"
     /\ Len(template_tasks) = 1
     /\ failures = 0
     /\ StoredInterval(1) # None /\ StoredInterval(1)[1] >= 1
     /\ \A d \in today..DaysInMonth :
           (d - today) % StoredInterval(1)[1] = 0 => Occupancy(d) < cap)
    => LET k == StoredInterval(1)[1]
           n == ((DaysInMonth - today) \div k) + 1
       IN  CreateDates = [i \in 1..n |-> today + (i - 1) * k]

\* such a run with interval 2 and more than one occurrence
C2_Witness ==
    /\ entry = "scheduler" /\ pc = "done"
    /\ Len(template_tasks) = 1
    /\ failures = 0
    /\ StoredInterval(1) = <<2>>
    /\ CreateDates = <<today, today + 2>>

(***************************************************************************)
(* C3.  No creation call is ever issued for a template whose stored        *)
(* "Regularity (days)" is zero or null: such a template is skipped.        *)
(***************************************************************************)
C3_ZeroIntervalSkipped ==
    entry = "scheduler" =>
        \A i \in Creates :
            /\ StoredInterval(calls[i].template) # None
            /\ StoredInterval(calls[i].template)[1] # 0

(***************************************************************************)
(* C4.  Whenever the cursor of the allocator is on a day D of the month    *)
(* with Occupancy[D] + Planned[D] >= cap, the next step issues no call,    *)
(* leaves the Planned counts, the result list and the store unchanged and  *)
(* puts the cursor on D + regularity_days, still inside the same template; *)
(* and within one template the cursor only ever moves forward, so no day   *)
(* is examined twice.                                                      *)
(***************************************************************************)
C4_CapSkipAdvances ==
    [][/\ (/\ entry = "scheduler" /\ pc = "while"
           /\ current_date <= DaysInMonth
           /\ Occupancy(current_date) + Planned(current_date) >= cap)
          => /\ calls' = calls
             /\ created_tasks' = created_tasks
             /\ pages' = pages
             /\ \A k \in DOMAIN new_tasks_by_date' :
                   new_tasks_by_date'[k] = Get(new_tasks_by_date, k, 0)
             /\ current_date' = current_date + task_properties["regularity_days"]
             /\ pc' = "while"
             /\ index' = index
             /\ task_properties' = task_properties
       /\ (entry = "scheduler" /\ pc = "while" /\ pc' = "while")
          => current_date' > current_date]_vars

\* the first template, of interval 2, found a day D full, and then created
\* its occurrence for D + 2
C4_Witness ==
    /\ entry = "scheduler" /\ pc = "while" /\ index = 1
    /\ task_properties["regularity_days"] = 2
    /\ \E i \in Creates :
          /\ Occupancy(calls[i].date - 2) >= cap
          /\ [date |-> calls[i].date - 2, time |-> ""] \in DOMAIN new_tasks_by_date
          /\ calls[i].ok

(***************************************************************************)
(* C5.  Quota used by an earlier template is seen by the later ones: once  *)
(* a creation for day d has succeeded on a count of cap - 1, no later      *)
(* creation call is issued for d.  So in a finished run of two templates   *)
(* with intervals >= 1 and no refused call, on a common candidate day that *)
(* had cap - 1 records, the one creation call is for the template listed   *)
(* first: which template gets the slot follows the order of the list.      *)
(***************************************************************************)
C5_EarlierTemplateTakesSlot ==
    entry = "scheduler" =>
        /\ \A i \in Creates :
              (/\ calls[i].ok
               /\ Occupancy(calls[i].date) + CreatedBefore(i, calls[i].date) = cap - 1)
              => \A j \in Creates : j > i => calls[j].date # calls[i].date
        /\ (/\ pc = "done" /\ Len(template_tasks) = 2 /\ failures = 0
            /\ \A t \in 1..2 : StoredInterval(t) # None /\ StoredInterval(t)[1] >= 1)
           => \A d \in today..DaysInMonth :
                 (/\ Occupancy(d) = cap - 1
                  /\ \A t \in 1..2 : (d - today) % StoredInterval(t)[1] = 0)
                 => {<<calls[i].template, calls[i].name>> :
                        i \in {j \in Creates : calls[j].date = d}}
                    = {<<1, template_tasks[1].properties["Task"].title[1].text.content>>}

\* the list is <<Every2, Every1>>, today had cap - 1 records: Every2 got
\* today and Every1 did not
C5_Witness ==
    /\ entry = "scheduler" /\ pc = "done" /\ failures = 0
    /\ Len(template_tasks) = 2
    /\ StoredInterval(1) = <<2>> /\ StoredInterval(2) = <<1>>
    /\ Occupancy(today) = cap - 1
    /\ \E i \in Creates : calls[i].date = today /\ calls[i].name = "Every2" /\ calls[i].ok
    /\ \A i \in Creates : calls[i].date = today => calls[i].name # "Every1"
    /\ \E i \in Creates : calls[i].name = "Every1"

(***************************************************************************)
(* C6.  The cleaner, having found N >= 1 templated tasks with dates:       *)
(* after any answer other than yes / y (in any case) no archive call is    *)
(* issued, all N records stay and 0 is returned; after yes / y one archive *)
(* call is issued for each of the N records in turn, whether or not an     *)
(* earlier one failed, and the count returned is the number of archive     *)
(* calls that succeeded.                                                   *)
(***************************************************************************)
IsYes(line) ==
    \/ Len(line) = 1 /\ line[1] \in {"y", "Y"}
    \/ Len(line) = 3 /\ line[1] \in {"y", "Y"} /\ line[2] \in {"e", "E"}
                     /\ line[3] \in {"s", "S"}

IsArchiveCall(c) == c.op = "archive"
Archives == SelectSeq(calls, IsArchiveCall)

C6_ArchiveOnlyWhenConfirmed ==
    (entry = "cleaner" /\ tasks # <<>> /\ pc \in {"delete", "done"}) =>
        /\ {tasks[i].id : i \in 1..Len(tasks)}
              = {pages[i].id : i \in {j \in 1..Len(pages) :
                                        IsTemplated(pages[j]) /\ ~DateIsEmpty(pages[j])}}
        /\ ~IsYes(confirmation) =>
              /\ Archives = <<>>
              /\ pc = "done" /\ deleted_count = 0
              /\ \A i \in 1..Len(pages) : ~pages[i].archived
        /\ IsYes(confirmation) =>
              /\ Len(Archives) = index
              /\ \A i \in 1..Len(Archives) : Archives[i].id = tasks[i].id
              /\ \A i \in 1..Len(pages) :
                    pages[i].archived <=>
                        \E j \in 1..Len(Archives) :
                            Archives[j].ok /\ Archives[j].id = pages[i].id
              /\ pc = "done" =>
                    /\ Len(Archives) = Len(tasks)
                    /\ deleted_count =
                          Cardinality({i \in 1..Len(Archives) : Archives[i].ok})

\* confirmed with "YES": the first archive call failed, the second one was
\* still made and succeeded
C6_Witness ==
    /\ entry = "cleaner" /\ pc = "done"
    /\ confirmation = <<"Y", "E", "S">>
    /\ Len(tasks) >= 2
    /\ ~Archives[1].ok /\ Archives[2].ok
    /\ deleted_count = Len(tasks) - 1

(***************************************************************************)
(* C7.  With the API token or the collection id missing, either script     *)
(* issues no network call at all, never asks for confirmation, and returns *)
(* its empty result: the empty list for the scheduler, 0 for the cleaner.  *)
(***************************************************************************)
C7_MissingCredentialsNoCalls ==
    (/\ entry \in {"scheduler", "cleaner"}
     /\ \/ NOTION_API_TOKEN \in {None, <<"">>}
        \/ DATABASE_ID \in {None, <<"">>})
    => /\ calls = <<>>
       /\ pc \in {"main", "done"}
       /\ \A i \in 1..Len(pages) : ~pages[i].archived
       /\ pc = "done" => /\ entry = "scheduler" => result = <<>>
                         /\ entry = "cleaner" => deleted_count = 0

\* the scheduler returned with the collection id unset
C7_Witness ==
    /\ entry = "scheduler" /\ pc = "done"
    /\ NOTION_API_TOKEN = <<"secret">> /\ DATABASE_ID = None
    /\ calls = <<>> /\ result = <<>>

(***************************************************************************)
(* C9.  The schema fetch is the first network call of a scheduling run and *)
(* is made once; when it fails the run ends there: no other call follows   *)
(* and the empty list is returned.                                         *)
(***************************************************************************)
C9_SchemaFirstAndFatal ==
    entry = "scheduler" =>
        /\ calls # <<>> => calls[1].op = "schema"
        /\ \A i \in 2..Len(calls) : calls[i].op # "schema"
        /\ (calls # <<>> /\ ~calls[1].ok) =>
              /\ Len(calls) = 1
              /\ pc = "done"
              /\ result = <<>>
              /\ created_tasks = <<>>

\* the schema fetch failed and the run returned
C9_Witness ==
    /\ entry = "scheduler" /\ pc = "done"
    /\ calls = <<[op |-> "schema", ok |-> FALSE]>>
    /\ \E i \in 1..Len(pages) : IsTemplated(pages[i]) /\ DateIsEmpty(pages[i])

(***************************************************************************)
(* C10.  After a failed occupancy query the occupancy table is empty and   *)
(* the run goes on: the templates are queried, and a finished run has gone *)
(* through every template.  Every day counts as holding no record, so a    *)
(* creation call is issued only while fewer than cap creations of this run *)
(* succeeded for its day, and when no call was refused every candidate day *)
(* of every template of interval >= 1 either got its creation call or      *)
(* holds cap creations of this run.                                        *)
(***************************************************************************)
C10_OccupancyFailureNotFatal ==
    (/\ entry = "scheduler" /\ Len(calls) >= 2
     /\ calls[2].op = "query_existing" /\ ~calls[2].ok)
    => /\ existing_tasks_by_date = EmptyDict
       /\ pc # "existing"
       /\ Len(calls) >= 3 => calls[3].op = "query_templates"
       /\ \A i \in Creates : CreatedBefore(i, calls[i].date) < cap
       /\ (pc = "done" /\ Len(calls) >= 3 /\ calls[3].ok) =>
             /\ index = Len(template_tasks)
             /\ result = created_tasks
             /\ failures = 0 =>
                   \A t \in 1..Len(template_tasks) : \A d \in today..DaysInMonth :
                       (/\ StoredInterval(t) # None /\ StoredInterval(t)[1] >= 1
                        /\ (d - today) % StoredInterval(t)[1] = 0)
                       => \/ \E i \in Creates : calls[i].template = t /\ calls[i].date = d
                          \/ Planned(d) = cap

\* the occupancy query failed, the store held cap dated pages for today, and
\* the run still created an occurrence for today
C10_Witness ==
    /\ entry = "scheduler" /\ pc = "done"
    /\ Len(calls) >= 2 /\ ~calls[2].ok
    /\ Cardinality({i \in 1..Len(pages) :
                       /\ ~DateIsEmpty(pages[i])
                       /\ DateStart(pages[i]).date = today}) > cap
    /\ \E i \in Creates : calls[i].date = today /\ calls[i].ok

(***************************************************************************)
(* C8, as stated.  In the payload made from the extracted map of a         *)
(* template: a link property that is unset on the template is null, and no *)
(* link is ever the empty string; a single-choice property set to choice c *)
(* carries c; and every single-choice or date property of the schema that  *)
(* is unset on the template is left out of the payload.                    *)
(***************************************************************************)
TemplateProperties == template_tasks[1].properties

LinkAndChoiceRoundTrip(p) ==
    /\ schema[p] = "url" =>
          /\ p \in DOMAIN new_properties
          /\ new_properties[p].url # <<"">>
          /\ TemplateProperties[p].url = None => new_properties[p].url = None
          /\ TemplateProperties[p].url \notin {None, <<"">>} =>
                new_properties[p].url = TemplateProperties[p].url
    /\ (schema[p] = "select" /\ TemplateProperties[p].select # None) =>
          /\ p \in DOMAIN new_properties
          /\ new_properties[p].select = <<[name |-> TemplateProperties[p].select[1].name]>>

UnsetOnTemplate(p) ==
    \/ schema[p] = "select" /\ TemplateProperties[p].select = None
    \/ schema[p] = "date" /\ TemplateProperties[p].date = None

C8_UnsetAlwaysOmitted ==
    (entry = "codec" /\ pc = "done") =>
        \A p \in DOMAIN schema :
            /\ LinkAndChoiceRoundTrip(p)
            /\ UnsetOnTemplate(p) => p \notin DOMAIN new_properties

(***************************************************************************)
(* C8, amended.  As above, except that the Date property, which is unset   *)
(* on every template, is not left out: it carries the due date, as a day   *)
(* without a time.  Every other unset single-choice or date property is    *)
(* left out of the payload.                                                *)
(***************************************************************************)
C8_RoundTripExceptDueDate ==
    (entry = "codec" /\ pc = "done") =>
        /\ \A p \in DOMAIN schema :
              /\ LinkAndChoiceRoundTrip(p)
              /\ (UnsetOnTemplate(p) /\ p # "Date") => p \notin DOMAIN new_properties
        /\ new_properties["Date"].date = <<[start |-> [date |-> current_date, time |-> ""]]>>

\* a template with an unset link, the choice "High" and an unset deadline
\* went through extraction and injection
C8_Witness ==
    /\ entry = "codec" /\ pc = "done"
    /\ {"Link", "Priority", "Deadline"} \subseteq DOMAIN schema
    /\ TemplateProperties["Link"].url = None
    /\ TemplateProperties["Priority"].select = <<[name |-> "High"]>>
    /\ TemplateProperties["Deadline"].date = None
    /\ new_properties["Link"].url = None
    /\ new_properties["Priority"].select = <<[name |-> "High"]>>
    /\ "Deadline" \notin DOMAIN new_properties

(***************************************************************************)
(* Further views of the state.                                             *)
(***************************************************************************)
\* the sum of Planned over a set of days
RECURSIVE PlannedSum(_)
PlannedSum(days) ==
    IF days = {} THEN 0
    ELSE LET d == CHOOSE x \in days : TRUE
         IN  Planned(d) + PlannedSum(days \ {d})

PlannedDays == {k.date : k \in DOMAIN new_tasks_by_date}

\* the interval the allocator steps by for the template at position t
SteppedInterval(t) ==
    IF StoredInterval(t) = None \/ StoredInterval(t) = <<0>> THEN 1
    ELSE StoredInterval(t)[1]

(***************************************************************************)
(* C11.  A step that issues a refused creation call leaves the Planned     *)
(* counts, the result list and the store unchanged, was for the cursor     *)
(* day, and moves the cursor on by regularity_days inside the same         *)
(* template.  Within one template the days of the creation calls strictly *)
(* ascend (no day is retried), and a finished run has, for every template  *)
(* and every candidate day of it, either issued a creation call or found   *)
(* the day at the cap.  At every point of the run the length of the result *)
(* list, the sum of the Planned counts and the number of successful        *)
(* creation calls are equal.                                               *)
(***************************************************************************)
C11_FailedCreationHandling ==
    /\ [](entry = "scheduler" =>
            /\ Len(created_tasks) = PlannedSum(PlannedDays)
            /\ Len(created_tasks) = Cardinality({i \in Creates : calls[i].ok})
            /\ \A i, j \in Creates :
                  (i < j /\ calls[i].template = calls[j].template)
                  => calls[i].date < calls[j].date
            /\ pc = "done" =>
                  \A t \in 1..Len(template_tasks) :
                     \A d \in today..DaysInMonth :
                        (d - today) % SteppedInterval(t) = 0
                        => \/ \E i \in Creates :
                                 calls[i].template = t /\ calls[i].date = d
                           \/ Occupancy(d) + Planned(d) >= cap)
    /\ [][(/\ entry = "scheduler"
           /\ Len(calls') = Len(calls) + 1
           /\ calls'[Len(calls')].op = "create"
           /\ ~calls'[Len(calls')].ok)
          => /\ created_tasks' = created_tasks
             /\ pages' = pages
             /\ \A k \in DOMAIN new_tasks_by_date' :
                   new_tasks_by_date'[k] = Get(new_tasks_by_date, k, 0)
             /\ calls'[Len(calls')].date = current_date
             /\ current_date' = current_date + task_properties["regularity_days"]
             /\ pc' = "while"
             /\ index' = index
             /\ task_properties' = task_properties
             /\ template_tasks' = template_tasks]_vars

\* a finished run of two templates: a call of the first one, for day D, was
\* refused; the first template then got a later day, and the second one got
\* day D
C11_Witness ==
    /\ entry = "scheduler" /\ pc = "done"
    /\ Len(template_tasks) = 2
    /\ \E i, j, l \in Creates :
          /\ i < j /\ j < l
          /\ calls[i].template = 1 /\ ~calls[i].ok
          /\ calls[j].template = 1 /\ calls[j].ok /\ calls[j].date > calls[i].date
          /\ calls[l].template = 2 /\ calls[l].ok /\ calls[l].date = calls[i].date
    /\ Len(created_tasks) >= 2

(***************************************************************************)
(* Runs of the scheduler one after another on the same day and the same    *)
(* store, every call being answered with success.  The log of the calls    *)
(* the store received is kept over the runs.                               *)
(***************************************************************************)
\* the runs started so far: each one begins with its schema fetch
Runs == Cardinality({i \in 1..Len(calls) : calls[i].op = "schema"})

InitRuns ==
    /\ entry = "scheduler"
    /\ NOTION_API_TOKEN = <<"secret">>
    /\ DATABASE_ID = <<"secret">>
    /\ pc = "main"
    /\ today \in Todays
    /\ pages \in InitialStores(today, TemplateLists)
    /\ calls = <<>>
    /\ failures = 0
    /\ schema = EmptyDict
    /\ existing_tasks_by_date = EmptyDict
    /\ new_tasks_by_date = EmptyDict
    /\ template_tasks = <<>>
    /\ index = 0
    /\ task_properties = EmptyDict
    /\ current_date = 0
    /\ new_properties = EmptyDict
    /\ created_tasks = <<>>
    /\ result = <<>>
    /\ tasks = <<>>
    /\ confirmation = <<>>
    /\ successful_deletions = 0
    /\ deleted_count = 0

\* the script is started again: a new process, whose module globals and
\* locals are fresh, on the store the earlier runs left
RunAgain ==
    /\ entry = "scheduler" /\ pc = "done"
    /\ Runs < MaxRuns
    /\ pc' = "main"
    /\ schema' = EmptyDict
    /\ existing_tasks_by_date' = EmptyDict
    /\ new_tasks_by_date' = EmptyDict
    /\ template_tasks' = <<>>
    /\ index' = 0
    /\ task_properties' = EmptyDict
    /\ current_date' = 0
    /\ created_tasks' = <<>>
    /\ result' = <<>>
    /\ UNCHANGED <<envVars, pages, calls, failures, new_properties, cleanerVars>>

NextRuns ==
    \/ SchedulerMain
    \/ GetSchemaOk
    \/ GetExistingOk
    \/ GetTemplatesOk
    \/ ForTemplate \/ ForDone
    \/ WhileExit \/ WhileSkip \/ WhileCreateOk
    \/ RunAgain

SpecRuns == InitRuns /\ [][NextRuns]_vars

\* the records the store held before the first run are the first InitialLen
\* of pages
InitialLen == Len(pages) - Cardinality({i \in Creates : calls[i].ok})

IsStoredOn(p, d) ==
    /\ ~p.archived
    /\ p.properties["Date"].date # None
    /\ p.properties["Date"].date[1].start.date = d

\* the records of the store dated d, now and before the first run
StoredCount(d) == Cardinality({i \in 1..Len(pages) : IsStoredOn(pages[i], d)})
InitialCount(d) == Cardinality({i \in 1..InitialLen : IsStoredOn(pages[i], d)})

(***************************************************************************)
(* C12.  Over any number of complete runs on the same day, all calls       *)
(* succeeding: every record a run created is a "Templated task" with a     *)
(* Date; the templates of every run are records that were in the store     *)
(* before the first run and have no Date; once a run has fetched its       *)
(* occupancy table, Occupancy[d] + Planned[d] is the number of records the *)
(* store holds for d, those of earlier runs included; and no day's stored  *)
(* record count exceeds max(its count before the first run, cap).          *)
(***************************************************************************)
C12_CapHoldsOverRuns ==
    /\ \A i \in 1..Len(pages) :
          pages[i].id > InitialLen
          => /\ pages[i].properties["Task Type"].select = <<[name |-> "Templated task"]>>
             /\ pages[i].properties["Date"].date # None
    /\ \A i \in 1..Len(template_tasks) :
          /\ template_tasks[i].id <= InitialLen
          /\ template_tasks[i].properties["Date"].date = None
    /\ pc \in {"templates", "for", "while", "done"}
       => \A d \in today..DaysInMonth : Occupancy(d) + Planned(d) = StoredCount(d)
    /\ \A d \in (today - 1)..DaysInMonth :
          StoredCount(d) <= Max(InitialCount(d), cap)

\* the second run is finished: on some day it counted records of the first
\* run, created one more, which filled the day up to the cap, and so refused
\* the day to its other template
C12_Witness ==
    /\ Runs = 2 /\ pc = "done"
    /\ Len(template_tasks) = 2
    /\ \E d \in today..DaysInMonth :
          /\ Occupancy(d) > InitialCount(d)
          /\ Planned(d) = 1
          /\ StoredCount(d) = cap
          /\ \A t \in 1..2 : (d - today) % SteppedInterval(t) = 0

====
